---- MODULE Spec2Model ----
(***************************************************************************)
(* Model of src/internal-ai.js: class InternalAI, the reconciliation       *)
(* engine that validates the names of an imported room schedule against    *)
(* the registries of professionals and appointments and detects schedule   *)
(* conflicts.                                                              *)
(*                                                                         *)
(* Representation of JavaScript values:                                    *)
(*  - a personal name (patientName, professionalName, client, name) is a   *)
(*    sequence of one-character strings, so that charAt, includes, trim    *)
(*    and the edit distance are computed character by character;           *)
(*  - the empty sequence stands for the falsy names (undefined and '');    *)
(*  - ids, dates, times, room names and days are strings; "" stands for    *)
(*    the falsy values (undefined, null, '');                              *)
(*  - null, as returned by _findClosestMatch and as held by originalData   *)
(*    before the first call, is the value null below, which is no name     *)
(*    (its only element is not a character);                               *)
(*  - objects and arrays have an identity: the variable objects lists the  *)
(*    objects ever created, the variable arrays the arrays, each array     *)
(*    being the list of the addresses of its elements.  An address is the  *)
(*    position in objects or in arrays; address 0 refers to nothing.  The  *)
(*    names roomImportData, professionals, appointments and originalData   *)
(*    stand for what the program reads through the references it holds.    *)
(***************************************************************************)
EXTENDS Integers, Sequences, FiniteSets, TLC

VARIABLES
    pc,                \* position inside processImportedData, or "thrown"
    objects,           \* the objects created so far, by address
    arrays,            \* the arrays created so far, by address
    roomImportDataRef, \* argument roomImportData: address of the object
    professionalsRef,  \* argument professionals: address of the array
    appointmentsRef,   \* argument appointments: address of the array
    originalDataRef,   \* this.originalData: address of the object, 0 for null
    suggestedChanges,  \* this.suggestedChanges
    conflicts,         \* this.conflicts
    validationErrors,  \* this.validationErrors
    autoCorrections,   \* this.autoCorrections
    calledWith,        \* history: the arguments as they were at the call
    calls,             \* history: how many calls of processImportedData began
    matchName,         \* argument name of a direct _findClosestMatch call
    matchList,         \* argument registeredList of that call
    matchResult        \* its return value

vars == <<pc, objects, arrays, roomImportDataRef, professionalsRef,
          appointmentsRef, originalDataRef,
          suggestedChanges, conflicts, validationErrors, autoCorrections,
          calledWith, calls, matchName, matchList, matchResult>>

engineVars == <<pc, objects, arrays, roomImportDataRef, professionalsRef,
                appointmentsRef, originalDataRef,
                suggestedChanges, conflicts, validationErrors, autoCorrections,
                calledWith, calls>>

matchVars == <<matchName, matchList, matchResult>>

(***************************************************************************)
(* Strings                                                                 *)
(***************************************************************************)

null == <<"null">>

\* JavaScript truthiness of a string-or-null value: null and '' are falsy.
Truthy(v) == v # null /\ v # <<>>

\* The cased characters of the names: the capitals of Basic Latin and of
\* Latin-1 Supplement (the accented capitals of Portuguese among them) and,
\* at the same position of LowerChars, what toLowerCase maps each to.  Every
\* other character of these two blocks is mapped to itself.
UpperChars == <<"A","B","C","D","E","F","G","H","I","J","K","L","M",
                "N","O","P","Q","R","S","T","U","V","W","X","Y","Z",
                "À","Á","Â","Ã","Ä","Å","Æ","Ç","È","É",
                "Ê","Ë","Ì","Í","Î","Ï","Ð","Ñ","Ò","Ó",
                "Ô","Õ","Ö","Ø","Ù","Ú","Û","Ü","Ý","Þ">>

LowerChars == <<"a","b","c","d","e","f","g","h","i","j","k","l","m",
                "n","o","p","q","r","s","t","u","v","w","x","y","z",
                "à","á","â","ã","ä","å","æ","ç","è","é",
                "ê","ë","ì","í","î","ï","ð","ñ","ò","ó",
                "ô","õ","ö","ø","ù","ú","û","ü","ý","þ">>

\* What trim strips: the WhiteSpace and LineTerminator characters of
\* ECMAScript.  Written as they are: U+0009 (tab), U+000A (line feed),
\* U+000B, U+000C, U+000D, U+0020, U+00A0 (no-break space), U+1680 and
\* U+FEFF; the characters a string of this module cannot hold stand under
\* the name of their code point.
WhiteSpace ==
    {"\t", "\n", "", "\f", "\r", " ", " ", " ", "﻿",
     "U+2000", "U+2001", "U+2002", "U+2003", "U+2004", "U+2005", "U+2006",
     "U+2007", "U+2008", "U+2009", "U+200A", "U+2028", "U+2029", "U+202F",
     "U+205F", "U+3000"}

\* the mapping of the cased characters, as a function of the capital
lowerCaseOf ==
    [c \in {UpperChars[k] : k \in DOMAIN UpperChars} |->
        LowerChars[CHOOSE k \in DOMAIN UpperChars : UpperChars[k] = c]]

toLowerCaseChar(c) ==
    IF c \in DOMAIN lowerCaseOf THEN lowerCaseOf[c] ELSE c

\* String.prototype.toLowerCase
toLowerCase(s) == [k \in 1..Len(s) |-> toLowerCaseChar(s[k])]

RECURSIVE trimStart(_)
trimStart(s) ==
    IF s # <<>> /\ Head(s) \in WhiteSpace THEN trimStart(Tail(s)) ELSE s

RECURSIVE trimEnd(_)
trimEnd(s) ==
    IF s # <<>> /\ s[Len(s)] \in WhiteSpace
    THEN trimEnd(SubSeq(s, 1, Len(s) - 1))
    ELSE s

\* String.prototype.trim
trim(s) == trimEnd(trimStart(s))

\* x.toLowerCase().trim(), the normalisation used throughout _validateNames
lowerTrim(s) == trim(toLowerCase(s))

\* String.prototype.includes: t occurs in s ('' occurs in every string)
includes(s, t) ==
    \E k \in 0..(Len(s) - Len(t)) : SubSeq(s, k + 1, k + Len(t)) = t

\* Array.prototype.includes on a list of strings
listIncludes(list, v) == \E k \in DOMAIN list : list[k] = v

\* Array.prototype.find: index of the first element satisfying a test given
\* as the sequence of its truth values, 0 when there is none
firstTrue(tests) ==
    IF \E k \in DOMAIN tests : tests[k]
    THEN CHOOSE k \in DOMAIN tests :
            tests[k] /\ \A h \in 1..(k - 1) : ~tests[h]
    ELSE 0

Min3(a, b, c) ==
    IF a <= b /\ a <= c THEN a ELSE IF b <= c THEN b ELSE c

(***************************************************************************)
(* _levenshteinDistance: the matrix is filled row by row.  Row i is kept   *)
(* as a sequence whose element j+1 is matrix[i][j]; its first element,     *)
(* matrix[i][0], is i, and while the row is being filled its length is the *)
(* column j to fill next.                                                  *)
(***************************************************************************)
RECURSIVE levenshteinRow(_, _, _, _)
levenshteinRow(prev, c2, str1, acc) ==
    LET j == Len(acc)
    IN  IF j > Len(str1) THEN acc
        ELSE levenshteinRow(prev, c2, str1,
                Append(acc,
                       IF c2 = str1[j]
                       THEN prev[j]
                       ELSE Min3(prev[j] + 1, acc[j] + 1, prev[j + 1] + 1)))

RECURSIVE levenshteinRows(_, _, _)
levenshteinRows(prev, str1, str2) ==
    LET i == prev[1] + 1
    IN  IF i > Len(str2) THEN prev
        ELSE levenshteinRows(levenshteinRow(prev, str2[i], str1, <<i>>),
                             str1, str2)

_levenshteinDistance(str1, str2) ==
    levenshteinRows([j \in 1..(Len(str1) + 1) |-> j - 1], str1, str2)
        [Len(str1) + 1]

(***************************************************************************)
(* _calculateSimilarity returns the number                                 *)
(* (longer.length - editDistance) / longer.length, kept here as the exact  *)
(* fraction num/den.  The comparison similarity > 0.8 of _findClosestMatch *)
(* is the comparison of the IEEE-754 quotient with the literal 0.8; both   *)
(* are roundings of exact rationals, the quotient of n/L with L below 2^50 *)
(* rounds to the double of 0.8 exactly when n/L = 4/5, so the comparison   *)
(* equals the exact one, ThresholdDen * num > ThresholdNum * den.          *)
(***************************************************************************)
ThresholdNum == 4

ThresholdDen == 5

_calculateSimilarity(str1, str2) ==
    LET longer  == IF Len(str1) > Len(str2) THEN str1 ELSE str2
        shorter == IF Len(str1) > Len(str2) THEN str2 ELSE str1
    IN  IF Len(longer) = 0
        THEN [num |-> 1, den |-> 1]
        ELSE [num |-> Len(longer) - _levenshteinDistance(longer, shorter),
              den |-> Len(longer)]

\* a plausible slip: similarity >= 0.8
atOrAboveThreshold(similarity) ==
    ThresholdDen * similarity.num >= ThresholdNum * similarity.den

\* similarity > 0.8
aboveThreshold(similarity) ==
    ThresholdDen * similarity.num > ThresholdNum * similarity.den

\* a plausible variant: containment is looked for in the whole registry first
\* and similarity only when no entry satisfies containment
closestMatchTwoPasses(nameLower, registeredList, k) ==
    LET contained == firstTrue([h \in 1..Len(registeredList) |->
                        includes(registeredList[h], nameLower)
                           \/ includes(nameLower, registeredList[h])])
        similar == firstTrue([h \in 1..Len(registeredList) |->
                      aboveThreshold(
                         _calculateSimilarity(nameLower, registeredList[h]))])
    IN  IF contained # 0 THEN registeredList[contained]
        ELSE IF similar # 0 THEN registeredList[similar]
        ELSE null

\* the loop of _findClosestMatch from position k of registeredList
RECURSIVE closestMatchFrom(_, _, _)
closestMatchFrom(nameLower, registeredList, k) ==
    IF k > Len(registeredList) THEN null
    ELSE LET registered == registeredList[k]
         IN  IF includes(registered, nameLower) \/ includes(nameLower, registered)
             THEN registered
             ELSE IF aboveThreshold(_calculateSimilarity(nameLower, registered))
                  THEN registered
                  ELSE closestMatchFrom(nameLower, registeredList, k + 1)

_findClosestMatch(name, registeredList) ==
    LET nameLower == lowerTrim(name)
        \* Array.prototype.find: the first equal entry, or undefined
        exactMatch == IF listIncludes(registeredList, nameLower)
                      THEN nameLower
                      ELSE null
    IN  IF Truthy(exactMatch)
        THEN exactMatch
        ELSE closestMatchFrom(nameLower, registeredList, 1)

(***************************************************************************)
(* Data model (spec section 3, the fields the code reads and writes)       *)
(***************************************************************************)

Slot(id, roomName, time, isOccupied, patientName, professionalName, professionalId, linkedAppointmentId) ==
    [id |-> id, roomName |-> roomName, dayOfWeek |-> "Seg", time |-> time,
     appointmentDate |-> "2024-01-08", isOccupied |-> isOccupied,
     patientName |-> patientName, professionalName |-> professionalName,
     professionalId |-> professionalId,
     linkedAppointmentId |-> linkedAppointmentId,
     hasScheduleConflict |-> FALSE, hasValidationError |-> FALSE]

Professional(id, name, specialty, inactive) ==
    [id |-> id, name |-> name, specialty |-> specialty, registration |-> "",
     inactive |-> inactive]

Appointment(id, client, professionalId, time) ==
    [id |-> id, client |-> client, professionalId |-> professionalId,
     date |-> "2024-01-08", time |-> time, type |-> "Consulta"]

\* [...new Set(list)]: duplicates removed, first occurrences kept in order
RECURSIVE uniqueFrom(_, _, _)
uniqueFrom(list, k, acc) ==
    IF k > Len(list) THEN acc
    ELSE uniqueFrom(list, k + 1,
                    IF listIncludes(acc, list[k]) THEN acc
                    ELSE Append(acc, list[k]))

registeredPatientsOf(appts) ==
    uniqueFrom([k \in 1..Len(appts) |-> lowerTrim(appts[k].client)], 1, <<>>)

registeredProfessionalsOf(profs) ==
    [k \in 1..Len(profs) |-> lowerTrim(profs[k].name)]

\* `${slot.roomName} - ${slot.dayOfWeek} ${slot.time}`
slotLocation(slot) ==
    slot.roomName \o " - " \o slot.dayOfWeek \o " " \o slot.time

\* `${slot.dayOfWeek} ${slot.time}`
slotDayTime(slot) == slot.dayOfWeek \o " " \o slot.time

\* `ai_new_prof_${Date.now()}_${Math.random()}`: an id no other professional
\* has; the n-th professional of newProfessionals gets the n-th such id
syntheticId(newProfessionals) ==
    "ai_new_prof_" \o ToString(Len(newProfessionals) + 1)

(***************************************************************************)
(* _validateNames.  st holds what the loop mutates: schedule and           *)
(* newProfessionals of roomImportData and the three result lists.          *)
(***************************************************************************)
\* lines 96-112: the slot's patientName is rewritten to the client name of
\* the appointment found, with one AutoCorrection and one ChangeRecord
patientCorrected(st, i, originalCase) ==
    LET slot == st.schedule[i]
    IN  [st EXCEPT
           !.schedule[i].patientName = originalCase.client,
           !.autoCorrections = Append(@,
              [type |-> "Paciente",
               original |-> slot.patientName,
               corrected |-> originalCase.client,
               location |-> slotLocation(slot),
               slotId |-> slot.id]),
           !.suggestedChanges = Append(@,
              [type |-> "Correção de Nome de Paciente",
               description |->
                  [template |-> "Corrigir %1 para %2",
                   names |-> <<slot.patientName, originalCase.client>>,
                   rooms |-> ""],
               location |-> slotLocation(slot),
               slotId |-> slot.id])]

\* a plausible slip: the validation error is recorded without its ChangeRecord
patientNotFoundUnlisted(st, i) ==
    LET slot == st.schedule[i]
    IN  [st EXCEPT
           !.validationErrors = Append(@,
              [type |-> "Paciente",
               name |-> slot.patientName,
               location |-> slotLocation(slot),
               action |-> "",
               slotId |-> slot.id])]

\* lines 115-128: one ValidationError and one ChangeRecord, the slot untouched
patientNotFound(st, i) ==
    LET slot == st.schedule[i]
    IN  [st EXCEPT
           !.validationErrors = Append(@,
              [type |-> "Paciente",
               name |-> slot.patientName,
               location |-> slotLocation(slot),
               action |-> "",
               slotId |-> slot.id]),
           !.suggestedChanges = Append(@,
              [type |-> "Erro de Validação",
               description |->
                  [template |-> "Paciente %1 não encontrado no cadastro",
                   names |-> <<slot.patientName>>,
                   rooms |-> ""],
               location |-> slotLocation(slot),
               slotId |-> slot.id])]

validatePatient(st, i, appts) ==
    LET slot == st.schedule[i]
        registeredPatients == registeredPatientsOf(appts)
        patientLower == lowerTrim(slot.patientName)
        closestMatch == _findClosestMatch(patientLower, registeredPatients)
        found == firstTrue([k \in 1..Len(appts) |->
                               lowerTrim(appts[k].client) = closestMatch])
    IN  IF slot.patientName = <<>> THEN st
        ELSE IF listIncludes(registeredPatients, patientLower) THEN st
        ELSE IF Truthy(closestMatch)
        THEN IF found = 0 THEN st
             ELSE patientCorrected(st, i, appts[found])
        ELSE patientNotFound(st, i)

\* lines 153-170: name and id of the slot become those of the professional
\* found, with one AutoCorrection and one ChangeRecord
professionalCorrected(st, i, originalProf) ==
    LET slot == st.schedule[i]
    IN  [st EXCEPT
           !.schedule[i].professionalName = originalProf.name,
           !.schedule[i].professionalId = originalProf.id,
           !.autoCorrections = Append(@,
              [type |-> "Profissional",
               original |-> slot.professionalName,
               corrected |-> originalProf.name,
               location |-> slotLocation(slot),
               slotId |-> slot.id]),
           !.suggestedChanges = Append(@,
              [type |-> "Correção de Nome de Profissional",
               description |->
                  [template |-> "Corrigir %1 para %2",
                   names |-> <<slot.professionalName, originalProf.name>>,
                   rooms |-> ""],
               location |-> slotLocation(slot),
               slotId |-> slot.id])]

\* lines 174-198: a synthetic professional is appended to newProfessionals
\* and the slot takes its id, with one ValidationError and one ChangeRecord
professionalCreated(st, i) ==
    LET slot == st.schedule[i]
        newProfessional ==
            [id |-> syntheticId(st.newProfessionals),
             name |-> slot.professionalName,
             specialty |-> "Importado - IA",
             registration |-> "",
             inactive |-> FALSE]
    IN  [st EXCEPT
           !.newProfessionals = Append(@, newProfessional),
           !.schedule[i].professionalId = newProfessional.id,
           !.validationErrors = Append(@,
              [type |-> "Profissional",
               name |-> slot.professionalName,
               location |-> slotLocation(slot),
               action |-> "Novo profissional será criado",
               slotId |-> slot.id]),
           !.suggestedChanges = Append(@,
              [type |-> "Novo Profissional",
               description |->
                  [template |-> "Criar novo profissional %1",
                   names |-> <<slot.professionalName>>,
                   rooms |-> ""],
               location |-> slotLocation(slot),
               slotId |-> slot.id])]

\* a plausible slip: the test on the new professionals (lines 138-142) is
\* left out
validateProfessionalNoDedup(st, i, profs) ==
    LET slot == st.schedule[i]
        registeredProfessionals == registeredProfessionalsOf(profs)
        profLower == lowerTrim(slot.professionalName)
        closestMatch == _findClosestMatch(profLower, registeredProfessionals)
        found == firstTrue([k \in 1..Len(profs) |->
                               lowerTrim(profs[k].name) = closestMatch])
    IN  IF slot.professionalName = <<>> THEN st
        ELSE IF listIncludes(registeredProfessionals, profLower) THEN st
        ELSE IF Truthy(closestMatch)
        THEN IF found = 0 THEN st
             ELSE professionalCorrected(st, i, profs[found])
        ELSE professionalCreated(st, i)

validateProfessional(st, i, profs) ==
    LET slot == st.schedule[i]
        registeredProfessionals == registeredProfessionalsOf(profs)
        profLower == lowerTrim(slot.professionalName)
        isNewProf == \E k \in DOMAIN st.newProfessionals :
                        lowerTrim(st.newProfessionals[k].name) = profLower
        closestMatch == _findClosestMatch(profLower, registeredProfessionals)
        found == firstTrue([k \in 1..Len(profs) |->
                               lowerTrim(profs[k].name) = closestMatch])
    IN  IF slot.professionalName = <<>> THEN st
        ELSE IF listIncludes(registeredProfessionals, profLower) THEN st
        ELSE IF isNewProf THEN st
        ELSE IF Truthy(closestMatch)
        THEN IF found = 0 THEN st
             ELSE professionalCorrected(st, i, profs[found])
        ELSE professionalCreated(st, i)

\* the body of the forEach callback for slot i
validateSlot(st, i, profs, appts) ==
    IF ~st.schedule[i].isOccupied THEN st
    ELSE validateProfessional(validatePatient(st, i, appts), i, profs)

RECURSIVE validateFrom(_, _, _, _)
validateFrom(st, i, profs, appts) ==
    IF i > Len(st.schedule) THEN st
    ELSE validateFrom(validateSlot(st, i, profs, appts), i + 1, profs, appts)

_validateNames(st, profs, appts) == validateFrom(st, 1, profs, appts)

(***************************************************************************)
(* Grouping of slots under a string key, as the code does with an object   *)
(* used as a dictionary: groups are kept in the order their key was first  *)
(* inserted (the order of for..in over keys that are no array indices),    *)
(* and each group lists the positions of its slots in schedule order.      *)
(* The object is created by {}, so it inherits the properties of           *)
(* Object.prototype: for a key that names one of them dict[key] is truthy  *)
(* before anything was stored, no array is created for it, and             *)
(* dict[key].push(slot) throws a TypeError, which ends the loop, the pass  *)
(* and processImportedData.  A key built as `${a}_${b}_${c}` holds two '_' *)
(* and so can only name the properties listed in ObjectPrototypeKeys.      *)
(***************************************************************************)
ObjectPrototypeKeys ==
    {"__proto__", "__defineGetter__", "__defineSetter__",
     "__lookupGetter__", "__lookupSetter__"}

\* what the grouping gives when it throws: no group has no member
TypeError == <<[key |-> "TypeError", members |-> <<>>]>>

RECURSIVE groupFrom(_, _, _, _)
groupFrom(keys, eligible, i, acc) ==
    IF i > Len(keys) THEN acc
    ELSE IF ~eligible[i] THEN groupFrom(keys, eligible, i + 1, acc)
    ELSE IF keys[i] \in ObjectPrototypeKeys THEN TypeError
    ELSE IF \E g \in DOMAIN acc : acc[g].key = keys[i]
    THEN LET g == CHOOSE h \in DOMAIN acc : acc[h].key = keys[i]
         IN  groupFrom(keys, eligible, i + 1,
                       [acc EXCEPT ![g].members = Append(@, i)])
    ELSE groupFrom(keys, eligible, i + 1,
                   Append(acc, [key |-> keys[i], members |-> <<i>>]))

\* list.join(', ') of strings
RECURSIVE joinStrings(_)
joinStrings(list) ==
    IF list = <<>> THEN ""
    ELSE IF Len(list) = 1 THEN list[1]
    ELSE list[1] \o ", " \o joinStrings(Tail(list))

\* list.join(', ') of names
RECURSIVE joinAllNames(_)
joinAllNames(list) ==
    IF list = <<>> THEN <<>>
    ELSE IF Len(list) = 1 THEN list[1]
    ELSE list[1] \o <<",", " ">> \o joinAllNames(Tail(list))

\* list.filter(Boolean).join(', ') of names
RECURSIVE joinNames(_)
joinNames(list) ==
    IF list = <<>> THEN <<>>
    ELSE IF Head(list) = <<>> THEN joinNames(Tail(list))
    ELSE LET rest == joinNames(Tail(list))
         IN  IF \A k \in DOMAIN Tail(list) : Tail(list)[k] = <<>>
             THEN Head(list)
             ELSE Head(list) \o <<",", " ">> \o rest

\* `${slot.professionalId}_${slot.appointmentDate}_${slot.time}`
profDayTimeKey(slot) ==
    slot.professionalId \o "_" \o slot.appointmentDate \o "_" \o slot.time

\* `${slot.roomName}_${slot.dayOfWeek}_${slot.time}`
roomDayTimeKey(slot) ==
    slot.roomName \o "_" \o slot.dayOfWeek \o "_" \o slot.time

\* slotsByProfDayTime of _detectScheduleConflicts
slotsByProfDayTime(schedule) ==
    groupFrom([i \in 1..Len(schedule) |-> profDayTimeKey(schedule[i])],
              [i \in 1..Len(schedule) |->
                  schedule[i].isOccupied /\ schedule[i].professionalId # ""],
              1, <<>>)

\* a plausible slip: the slots that are not occupied are grouped as well
slotsByRoomDayTimeAll(schedule) ==
    groupFrom([i \in 1..Len(schedule) |-> roomDayTimeKey(schedule[i])],
              [i \in 1..Len(schedule) |-> TRUE],
              1, <<>>)

\* slotsByRoomDayTime of _detectDuplicateRoomsOrTimes
slotsByRoomDayTime(schedule) ==
    groupFrom([i \in 1..Len(schedule) |-> roomDayTimeKey(schedule[i])],
              [i \in 1..Len(schedule) |-> schedule[i].isOccupied],
              1, <<>>)

\* a plausible slip: only the first slot of the group is marked
markFirstOnly(schedule, members) ==
    [i \in 1..Len(schedule) |->
        IF members[1] = i
        THEN [schedule[i] EXCEPT !.hasScheduleConflict = TRUE]
        ELSE schedule[i]]

\* slots.forEach(slot => { slot.hasScheduleConflict = true; ... }) of a group
markConflict(schedule, members) ==
    [i \in 1..Len(schedule) |->
        IF \E k \in DOMAIN members : members[k] = i
        THEN [schedule[i] EXCEPT !.hasScheduleConflict = TRUE]
        ELSE schedule[i]]

(***************************************************************************)
(* _detectScheduleConflicts, first loop: the professional in several rooms.*)
(* st holds schedule, conflicts and suggestedChanges.                      *)
(***************************************************************************)
doubleBookingOf(st, members) ==
    LET slots == [k \in 1..Len(members) |-> st.schedule[members[k]]]
        profName == slots[1].professionalName
        conflictingRooms ==
            joinStrings([k \in 1..Len(slots) |-> slots[k].roomName])
        dayTime == slotDayTime(slots[1])
    IN  [st EXCEPT
           !.conflicts = Append(@,
              [type |-> "Profissional em Múltiplas Salas",
               professionalName |-> profName,
               rooms |-> conflictingRooms,
               dayTime |-> dayTime,
               slots |-> [k \in 1..Len(slots) |-> slots[k].id]]),
           !.schedule = markConflict(@, members),
           !.suggestedChanges = @ \o
              [k \in 1..Len(slots) |->
                 [type |-> "Conflito de Horário",
                  description |->
                     [template |->
                         "Profissional %1 agendado em múltiplas salas: %rooms",
                      names |-> <<profName>>,
                      rooms |-> conflictingRooms],
                  location |-> dayTime,
                  slotId |-> slots[k].id]]]

RECURSIVE doubleBookingsFrom(_, _, _)
doubleBookingsFrom(st, groups, g) ==
    IF g > Len(groups) THEN st
    ELSE doubleBookingsFrom(
            IF Len(groups[g].members) > 1
            THEN doubleBookingOf(st, groups[g].members)
            ELSE st,
            groups, g + 1)

(***************************************************************************)
(* _detectScheduleConflicts, second loop: collisions with the appointments *)
(* of the registry.                                                        *)
(***************************************************************************)
\* a plausible slip: the appointment linked to the slot is not left out
collidingAppointmentsOf(slot, appts) ==
    SelectSeq([k \in 1..Len(appts) |-> k],
              LAMBDA k :
                 /\ appts[k].professionalId = slot.professionalId
                 /\ appts[k].date = slot.appointmentDate
                 /\ appts[k].time = slot.time)

\* appointments.filter(...) for a slot: the positions kept, in order
conflictingAppointmentsOf(slot, appts) ==
    SelectSeq([k \in 1..Len(appts) |-> k],
              LAMBDA k :
                 /\ appts[k].professionalId = slot.professionalId
                 /\ appts[k].date = slot.appointmentDate
                 /\ appts[k].time = slot.time
                 /\ (slot.linkedAppointmentId = ""
                        \/ appts[k].id # slot.linkedAppointmentId))

existingCollisionOf(st, i, appts) ==
    LET slot == st.schedule[i]
        found == conflictingAppointmentsOf(slot, appts)
        conflictingAppointments == [k \in 1..Len(found) |-> appts[found[k]]]
    IN  IF ~slot.isOccupied \/ slot.professionalId = "" THEN st
        ELSE IF Len(conflictingAppointments) > 0
        THEN [st EXCEPT
                !.conflicts = Append(@,
                   [type |-> "Conflito com Agendamento Existente",
                    professionalName |-> slot.professionalName,
                    patientName |-> slot.patientName,
                    room |-> slot.roomName,
                    dayTime |-> slotDayTime(slot),
                    conflictingAppointments |->
                       [k \in 1..Len(conflictingAppointments) |->
                          [id |-> conflictingAppointments[k].id,
                           client |-> conflictingAppointments[k].client,
                           type |-> conflictingAppointments[k].type]],
                    slotId |-> slot.id]),
                !.schedule[i].hasScheduleConflict = TRUE,
                !.suggestedChanges = Append(@,
                   [type |-> "Conflito com Agendamento",
                    description |->
                       [template |->
                           "Profissional %1 já tem agendamento com %2",
                        names |-> <<slot.professionalName,
                                    joinAllNames([k \in 1..Len(conflictingAppointments)
                                       |-> conflictingAppointments[k].client])>>,
                        rooms |-> ""],
                    location |-> slotLocation(slot),
                    slotId |-> slot.id])]
        ELSE st

RECURSIVE existingCollisionsFrom(_, _, _)
existingCollisionsFrom(st, i, appts) ==
    IF i > Len(st.schedule) THEN st
    ELSE existingCollisionsFrom(existingCollisionOf(st, i, appts), i + 1, appts)

\* st.thrown tells that the pass threw, which it does while grouping,
\* before it has recorded or flagged anything
_detectScheduleConflicts(st, appts) ==
    LET groups == slotsByProfDayTime(st.schedule)
    IN  IF groups = TypeError THEN [st EXCEPT !.thrown = TRUE]
        ELSE existingCollisionsFrom(doubleBookingsFrom(st, groups, 1), 1, appts)

(***************************************************************************)
(* _detectDuplicateRoomsOrTimes                                            *)
(***************************************************************************)
duplicateRoomOf(st, members) ==
    LET slots == [k \in 1..Len(members) |-> st.schedule[members[k]]]
        roomName == slots[1].roomName
        dayTime == slotDayTime(slots[1])
    IN  [st EXCEPT
           !.conflicts = Append(@,
              [type |-> "Sala com Múltiplos Agendamentos",
               roomName |-> roomName,
               dayTime |-> dayTime,
               patients |->
                  joinNames([k \in 1..Len(slots) |-> slots[k].patientName]),
               professionals |->
                  joinNames([k \in 1..Len(slots) |-> slots[k].professionalName]),
               slots |-> [k \in 1..Len(slots) |-> slots[k].id]]),
           !.schedule = markConflict(@, members),
           !.suggestedChanges = @ \o
              [k \in 1..Len(slots) |->
                 [type |-> "Sala Duplicada",
                  description |->
                     [template |->
                         "Sala %room com múltiplos agendamentos no mesmo horário",
                      names |-> <<>>,
                      rooms |-> roomName],
                  location |-> dayTime,
                  slotId |-> slots[k].id]]]

RECURSIVE duplicateRoomsFrom(_, _, _)
duplicateRoomsFrom(st, groups, g) ==
    IF g > Len(groups) THEN st
    ELSE duplicateRoomsFrom(
            IF Len(groups[g].members) > 1
            THEN duplicateRoomOf(st, groups[g].members)
            ELSE st,
            groups, g + 1)

_detectDuplicateRoomsOrTimes(st) ==
    LET groups == slotsByRoomDayTime(st.schedule)
    IN  IF groups = TypeError THEN [st EXCEPT !.thrown = TRUE]
        ELSE duplicateRoomsFrom(st, groups, 1)

(***************************************************************************)
(* _checkInactiveProfessionals                                             *)
(***************************************************************************)
\* a plausible slip: the slot is marked with hasScheduleConflict
inactiveFoundAsConflict(st, i, professional) ==
    LET slot == st.schedule[i]
    IN  [st EXCEPT
           !.conflicts = Append(@,
              [type |-> "Profissional Inativo",
               professionalName |-> professional.name,
               patientName |-> slot.patientName,
               room |-> slot.roomName,
               dayTime |-> slotDayTime(slot),
               slotId |-> slot.id]),
           !.schedule[i].hasScheduleConflict = TRUE]

\* lines 375-392: one conflict, hasValidationError on the slot, one ChangeRecord
inactiveFound(st, i, professional) ==
    LET slot == st.schedule[i]
    IN  [st EXCEPT
           !.conflicts = Append(@,
              [type |-> "Profissional Inativo",
               professionalName |-> professional.name,
               patientName |-> slot.patientName,
               room |-> slot.roomName,
               dayTime |-> slotDayTime(slot),
               slotId |-> slot.id]),
           !.schedule[i].hasValidationError = TRUE,
           !.suggestedChanges = Append(@,
              [type |-> "Profissional Inativo",
               description |->
                  [template |-> "Profissional %1 está inativo",
                   names |-> <<professional.name>>,
                   rooms |-> ""],
               location |-> slotLocation(slot),
               slotId |-> slot.id])]

inactiveCheckOf(st, i, profs) ==
    LET slot == st.schedule[i]
        found == firstTrue([k \in 1..Len(profs) |->
                               profs[k].id = slot.professionalId])
    IN  IF ~slot.isOccupied \/ slot.professionalId = "" THEN st
        ELSE IF found # 0 /\ profs[found].inactive
        THEN inactiveFound(st, i, profs[found])
        ELSE st

RECURSIVE inactiveChecksFrom(_, _, _)
inactiveChecksFrom(st, i, profs) ==
    IF i > Len(st.schedule) THEN st
    ELSE inactiveChecksFrom(inactiveCheckOf(st, i, profs), i + 1, profs)

_checkInactiveProfessionals(st, profs) == inactiveChecksFrom(st, 1, profs)

(***************************************************************************)
(* Objects and arrays by reference.  h is a heap: the record of the lists  *)
(* objects and arrays.  What the code creates is appended to them, so the  *)
(* address of a new object or array is the length of its list.             *)
(***************************************************************************)
heap == [objects |-> objects, arrays |-> arrays]

\* [v1, ..., vn]: a new array of new objects with the given values
newArray(h, values) ==
    [objects |-> h.objects \o values,
     arrays |-> Append(h.arrays,
                       [k \in 1..Len(values) |-> Len(h.objects) + k])]

\* { ... }: a new object
newObject(h, value) == [h EXCEPT !.objects = Append(@, value)]

\* the elements of the array at address a
elementsOf(h, a) == [k \in 1..Len(h.arrays[a]) |-> h.objects[h.arrays[a][k]]]

\* the imported data at address ref, read through its three arrays
importedAt(h, ref) ==
    [schedule |-> elementsOf(h, h.objects[ref].schedule),
     newProfessionals |-> elementsOf(h, h.objects[ref].newProfessionals),
     updatedAppointments |-> elementsOf(h, h.objects[ref].updatedAppointments)]

\* the arguments and this.originalData as the program reads them
roomImportData == importedAt(heap, roomImportDataRef)

professionals == elementsOf(heap, professionalsRef)

appointments == elementsOf(heap, appointmentsRef)

originalData ==
    IF originalDataRef = 0 THEN null ELSE importedAt(heap, originalDataRef)

\* the assignments a pass made to the properties of the slots: each object
\* of the array at address a takes the value the pass left at its position
\* (the schedules passed hold each slot object once)
storeSlots(h, a, schedule) ==
    [h EXCEPT !.objects =
        [o \in 1..Len(h.objects) |->
            IF \E k \in DOMAIN h.arrays[a] : h.arrays[a][k] = o
            THEN schedule[CHOOSE k \in DOMAIN h.arrays[a] : h.arrays[a][k] = o]
            ELSE h.objects[o]]]

\* array.push(v) for each of the values, in order, on the array at address a:
\* new objects, whose addresses are appended to that array
pushAll(h, a, values) ==
    [objects |-> h.objects \o values,
     arrays |-> [h.arrays EXCEPT ![a] =
                    @ \o [k \in 1..Len(values) |-> Len(h.objects) + k]]]

(***************************************************************************)
(* processImportedData                                                     *)
(***************************************************************************)
\* JSON.parse(JSON.stringify(list)): the values of a new array of new
\* objects.  The properties of the slots, professionals and appointments are
\* strings and booleans, which JSON.stringify writes and JSON.parse reads
\* back as they were; an empty name stays empty (a null stays null, an
\* undefined property stays absent).  The copy is made property by property
\* and is given objects of its own by snapshotOf.
jsonCloneSlots(list) ==
    [k \in 1..Len(list) |->
        [id |-> list[k].id, roomName |-> list[k].roomName,
         dayOfWeek |-> list[k].dayOfWeek, time |-> list[k].time,
         appointmentDate |-> list[k].appointmentDate,
         isOccupied |-> list[k].isOccupied,
         patientName |-> list[k].patientName,
         professionalName |-> list[k].professionalName,
         professionalId |-> list[k].professionalId,
         linkedAppointmentId |-> list[k].linkedAppointmentId,
         hasScheduleConflict |-> list[k].hasScheduleConflict,
         hasValidationError |-> list[k].hasValidationError]]

jsonCloneProfessionals(list) ==
    [k \in 1..Len(list) |->
        [id |-> list[k].id, name |-> list[k].name,
         specialty |-> list[k].specialty,
         registration |-> list[k].registration,
         inactive |-> list[k].inactive]]

jsonCloneAppointments(list) ==
    [k \in 1..Len(list) |->
        [id |-> list[k].id, client |-> list[k].client,
         professionalId |-> list[k].professionalId,
         date |-> list[k].date, time |-> list[k].time, type |-> list[k].type]]

\* a plausible slip: this.originalData is given the three arrays of
\* roomImportData themselves, without the JSON round trip
snapshotShared(h, ref) ==
    newObject(h, [schedule |-> h.objects[ref].schedule,
                  newProfessionals |-> h.objects[ref].newProfessionals,
                  updatedAppointments |-> h.objects[ref].updatedAppointments])

\* lines 27-31: three new arrays of new objects and the new object that
\* holds them, which is the last object of the heap returned
snapshotOf(h, ref) ==
    LET data == importedAt(h, ref)
        h1 == newArray(h, jsonCloneSlots(data.schedule))
        h2 == newArray(h1, jsonCloneProfessionals(data.newProfessionals))
        h3 == newArray(h2, jsonCloneAppointments(data.updatedAppointments))
    IN  newObject(h3, [schedule |-> Len(h1.arrays),
                       newProfessionals |-> Len(h2.arrays),
                       updatedAppointments |-> Len(h3.arrays)])

\* a plausible slip: the new professional is pushed on the registry
pushedArrayRegistry(h, dataRef, registryRef) == registryRef

\* line 182: the array that receives the new professional is
\* roomImportData.newProfessionals
pushedArray(h, dataRef, registryRef) == h.objects[dataRef].newProfessionals

notCalled == <<"not called">>

ProcessBegin ==
    /\ pc = "idle"
    /\ \E h \in {snapshotOf(heap, roomImportDataRef)} :
          /\ objects' = h.objects
          /\ arrays' = h.arrays
          /\ originalDataRef' = Len(h.objects)
    /\ suggestedChanges' = <<>>
    /\ conflicts' = <<>>
    /\ validationErrors' = <<>>
    /\ autoCorrections' = <<>>
    /\ pc' = "_validateNames"
    /\ calls' = calls + 1
    /\ UNCHANGED <<roomImportDataRef, professionalsRef, appointmentsRef,
                   calledWith>>
    /\ UNCHANGED matchVars

\* a second call on the same InternalAI, with the processedData the first
\* call returned (the caller's roomImportData as the first call left it) and
\* the same registries
ProcessAgain ==
    /\ pc = "done"
    /\ calls = 1
    /\ \E h \in {snapshotOf(heap, roomImportDataRef)} :
          /\ objects' = h.objects
          /\ arrays' = h.arrays
          /\ originalDataRef' = Len(h.objects)
    /\ suggestedChanges' = <<>>
    /\ conflicts' = <<>>
    /\ validationErrors' = <<>>
    /\ autoCorrections' = <<>>
    /\ pc' = "_validateNames"
    /\ calls' = calls + 1
    /\ calledWith' = roomImportData
    /\ UNCHANGED <<roomImportDataRef, professionalsRef, appointmentsRef>>
    /\ UNCHANGED matchVars

\* The pass reads the registries at its start and through its loop.  The
\* only write it can make to an array is the push of line 182, at the end of
\* roomImportData.newProfessionals, and professionals.find (line 148) looks
\* for a name of the registry as it was at the start of the pass and stops at
\* the first, so what the loop reads of professionals is what it held at the
\* start even when the two arrays are one.
ValidateNames ==
    /\ pc = "_validateNames"
    /\ \E st \in {_validateNames(
                    [schedule |-> roomImportData.schedule,
                     newProfessionals |-> roomImportData.newProfessionals,
                     autoCorrections |-> autoCorrections,
                     validationErrors |-> validationErrors,
                     suggestedChanges |-> suggestedChanges],
                    professionals, appointments)} :
          \E h \in {pushAll(
                       storeSlots(heap, objects[roomImportDataRef].schedule,
                                  st.schedule),
                       pushedArray(heap, roomImportDataRef, professionalsRef),
                       SubSeq(st.newProfessionals,
                              Len(roomImportData.newProfessionals) + 1,
                              Len(st.newProfessionals)))} :
              /\ objects' = h.objects
              /\ arrays' = h.arrays
              /\ autoCorrections' = st.autoCorrections
              /\ validationErrors' = st.validationErrors
              /\ suggestedChanges' = st.suggestedChanges
    /\ pc' = "_detectScheduleConflicts"
    /\ UNCHANGED <<roomImportDataRef, professionalsRef, appointmentsRef,
                   originalDataRef, conflicts, calledWith, calls>>
    /\ UNCHANGED matchVars

DetectScheduleConflicts ==
    /\ pc = "_detectScheduleConflicts"
    /\ \E st \in {_detectScheduleConflicts(
                    [schedule |-> roomImportData.schedule,
                     conflicts |-> conflicts,
                     suggestedChanges |-> suggestedChanges,
                     thrown |-> FALSE],
                    appointments)} :
          /\ objects' = storeSlots(heap, objects[roomImportDataRef].schedule,
                                   st.schedule).objects
          /\ conflicts' = st.conflicts
          /\ suggestedChanges' = st.suggestedChanges
          /\ pc' = IF st.thrown THEN "thrown"
                   ELSE "_detectDuplicateRoomsOrTimes"
    /\ UNCHANGED <<arrays, roomImportDataRef, professionalsRef,
                   appointmentsRef, originalDataRef, validationErrors,
                   autoCorrections, calledWith, calls>>
    /\ UNCHANGED matchVars

DetectDuplicateRoomsOrTimes ==
    /\ pc = "_detectDuplicateRoomsOrTimes"
    /\ \E st \in {_detectDuplicateRoomsOrTimes(
                    [schedule |-> roomImportData.schedule,
                     conflicts |-> conflicts,
                     suggestedChanges |-> suggestedChanges,
                     thrown |-> FALSE])} :
          /\ objects' = storeSlots(heap, objects[roomImportDataRef].schedule,
                                   st.schedule).objects
          /\ conflicts' = st.conflicts
          /\ suggestedChanges' = st.suggestedChanges
          /\ pc' = IF st.thrown THEN "thrown"
                   ELSE "_checkInactiveProfessionals"
    /\ UNCHANGED <<arrays, roomImportDataRef, professionalsRef,
                   appointmentsRef, originalDataRef, validationErrors,
                   autoCorrections, calledWith, calls>>
    /\ UNCHANGED matchVars

\* the last pass, after which processImportedData returns its result
CheckInactiveProfessionals ==
    /\ pc = "_checkInactiveProfessionals"
    /\ \E st \in {_checkInactiveProfessionals(
                    [schedule |-> roomImportData.schedule,
                     conflicts |-> conflicts,
                     suggestedChanges |-> suggestedChanges],
                    professionals)} :
          /\ objects' = storeSlots(heap, objects[roomImportDataRef].schedule,
                                   st.schedule).objects
          /\ conflicts' = st.conflicts
          /\ suggestedChanges' = st.suggestedChanges
    /\ pc' = "done"
    /\ UNCHANGED <<arrays, roomImportDataRef, professionalsRef,
                   appointmentsRef, originalDataRef, validationErrors,
                   autoCorrections, calledWith, calls>>
    /\ UNCHANGED matchVars

\* a direct call of _findClosestMatch
CallFindClosestMatch ==
    /\ matchResult = notCalled
    /\ matchResult' = _findClosestMatch(matchName, matchList)
    /\ UNCHANGED <<matchName, matchList>>
    /\ UNCHANGED engineVars

(***************************************************************************)
(* Inputs.  The names are chosen for what the matcher does with them:      *)
(*   "MARIA "   equals "maria" once lower-cased and trimmed                *)
(*   "Mari"     is contained in "maria"                                    *)
(*   "Marina"   is at distance 1 of "maria": similarity 5/6 > 0.8          *)
(*   "Marla"    is at distance 1 of "maria": similarity 4/5 = 0.8          *)
(*   "Marino"   is at distance 1 of "marina": similarity 5/6               *)
(*   "Xyz"      is close to no registered name                             *)
(*   " "        is a blank name, '' once trimmed                           *)
(***************************************************************************)
MaxSlots == 2

MaxRegistry == 2

nameMaria == <<"M","a","r","i","a">>

nameMariaUpper == <<"M","A","R","I","A"," ">>

nameMari == <<"M","a","r","i">>

nameMarina == <<"M","a","r","i","n","a">>

nameMarinaLower == <<"m","a","r","i","n","a"," ">>

nameMarinaS == <<"M","a","r","i","n","a"," ","S">>

nameMarino == <<"M","a","r","i","n","o">>

nameMarla == <<"M","a","r","l","a">>

nameXyz == <<"X","y","z">>

nameXyzUpper == <<" ","X","Y","Z">>

nameBlank == <<" ">>

\* sequences over S of length at most n
SeqUpTo(S, n) == UNION {[1..m -> S] : m \in 0..n}

\* slots whose names the reconciliation examines: no professionalId yet
NameSlots ==
    {Slot("", "Sala 1", "08h", TRUE, p, <<>>, "", "") :
        p \in {nameMariaUpper, nameMari, nameMarina, nameMarla}}
    \cup
    {Slot("", "Sala 1", "08h", TRUE, <<>>, q, "", "") :
        q \in {nameMarinaLower, nameMarino, nameXyz, nameXyzUpper}}
    \cup
    {Slot("", "Sala 1", "09h", TRUE, nameMarina, nameMarino, "", ""),
     Slot("", "Sala 1", "09h", TRUE, nameMarla, nameXyz, "", "")}

\* slots that already carry a professionalId, two of them linked to
\* appointment a1: one to the appointment it would collide with, one not
ConflictSlots ==
    {Slot("", "Sala 2", t, TRUE, nameMaria, <<>>, id, "") :
        t \in {"08h", "09h"}, id \in {"p1", "p2"}}
    \cup
    {Slot("", "Sala 2", "08h", TRUE, nameMaria, <<>>, "p1", "a1"),
     Slot("", "Sala 2", "09h", TRUE, nameMaria, <<>>, "p2", "a1")}

\* slots that are not occupied
VacantSlots ==
    {Slot("", "Sala 1", "08h", FALSE, nameMarla, nameMarino, "", ""),
     Slot("", "Sala 2", "08h", FALSE, nameMaria, <<>>, "p2", "")}

SlotPool == NameSlots \cup ConflictSlots \cup VacantSlots

\* slot ids are unique: the slot at position k has id "s<k>"
Schedules ==
    {[k \in DOMAIN slots |-> [slots[k] EXCEPT !.id = "s" \o ToString(k)]] :
        slots \in SeqUpTo(SlotPool, MaxSlots)}

profMarina == Professional("p1", nameMarina, "Fisioterapia", FALSE)

profMarinaS == Professional("p2", nameMarinaS, "Psicologia", TRUE)

profXyz == Professional("n1", nameXyz, "Importado", FALSE)

aptMaria == Appointment("a1", nameMaria, "p1", "08h")

aptMariaUpper == Appointment("a2", nameMariaUpper, "p1", "08h")

aptBlank == Appointment("a3", nameBlank, "p2", "09h")

AppointmentRegistries ==
    {<<>>, <<aptMaria>>, <<aptMaria, aptMariaUpper>>,
     <<aptMariaUpper, aptMaria>>, <<aptBlank, aptMaria>>}

\* the registries and the newProfessionals list of a call: the registry of
\* both professionals with any of the appointment registries, and with the
\* one-appointment registry also the registry without profMarina and a
\* newProfessionals list that already holds a professional
\* In these the registry of professionals and the newProfessionals list
\* are two arrays (sameArray is FALSE).
Worlds ==
    {[professionals |-> <<profMarina, profMarinaS>>, appointments |-> a,
      newProfessionals |-> <<>>, sameArray |-> FALSE] :
        a \in AppointmentRegistries}
    \cup
    {[professionals |-> <<profMarinaS>>, appointments |-> <<aptMaria>>,
      newProfessionals |-> <<>>, sameArray |-> FALSE],
     [professionals |-> <<profMarina, profMarinaS>>,
      appointments |-> <<aptMaria>>, newProfessionals |-> <<profXyz>>,
      sameArray |-> FALSE]}

\* the objects and arrays of a call, in the order of their addresses: the
\* arrays schedule (1), newProfessionals (2), updatedAppointments (3), the
\* appointments registry (4) and, unless it is the newProfessionals array
\* itself, the professionals registry (5), then the roomImportData object
callHeap(schedule, world, updatedAppointments) ==
    LET h1 == newArray([objects |-> <<>>, arrays |-> <<>>], schedule)
        h2 == newArray(h1, world.newProfessionals)
        h3 == newArray(h2, updatedAppointments)
        h4 == newArray(h3, world.appointments)
        h5 == IF world.sameArray THEN h4 ELSE newArray(h4, world.professionals)
    IN  newObject(h5, [schedule |-> 1, newProfessionals |-> 2,
                       updatedAppointments |-> 3])

\* the state after new InternalAI(), with a call to come whose schedule is
\* one of schedules and whose registries are those of one of worlds
InitWith(schedules, worlds) ==
    /\ pc = "idle"
    /\ \E schedule \in schedules, world \in worlds :
          \E h \in {callHeap(schedule, world, <<aptMaria>>)} :
             /\ objects = h.objects
             /\ arrays = h.arrays
             /\ roomImportDataRef = Len(h.objects)
             /\ professionalsRef = IF world.sameArray THEN 2 ELSE 5
             /\ appointmentsRef = 4
    /\ originalDataRef = 0
    /\ suggestedChanges = <<>>
    /\ conflicts = <<>>
    /\ validationErrors = <<>>
    /\ autoCorrections = <<>>
    /\ calledWith = roomImportData
    /\ calls = 0
    /\ matchName = <<>>
    /\ matchList = <<>>
    /\ matchResult = notCalled

\* the state after new InternalAI(), with the arguments of the call to come
Init == InitWith(Schedules, Worlds)

Next ==
    \/ ProcessBegin
    \/ ValidateNames
    \/ DetectScheduleConflicts
    \/ DetectDuplicateRoomsOrTimes
    \/ CheckInactiveProfessionals

Spec == Init /\ [][Next]_vars

(***************************************************************************)
(* Runs on schedules whose room names and days of the week may contain the *)
(* character '_' that the grouping keys are built with: roomName "Sala"    *)
(* with dayOfWeek "1_Seg" and roomName "Sala_1" with dayOfWeek "Seg" give  *)
(* the same key string for the same time.  Two more slots have a key that  *)
(* is "__proto__": one by its room, day and time, one by its professional, *)
(* date and time.                                                          *)
(***************************************************************************)
RoomSlots ==
    {[Slot("", room, t, TRUE, nameMaria, <<>>, "", "") EXCEPT !.dayOfWeek = day] :
        room \in {"Sala", "Sala_1"}, day \in {"Seg", "1_Seg"},
        t \in {"08h", "09h"}}
    \cup
    {Slot("", "Sala", "08h", FALSE, nameMaria, <<>>, "", ""),
     [Slot("", "", "proto__", TRUE, nameMaria, <<>>, "", "")
         EXCEPT !.dayOfWeek = ""],
     [Slot("", "Sala", "_", TRUE, nameMaria, <<>>, "_", "")
         EXCEPT !.appointmentDate = "proto"]}

RoomSchedules ==
    {[k \in DOMAIN slots |-> [slots[k] EXCEPT !.id = "s" \o ToString(k)]] :
        slots \in SeqUpTo(RoomSlots, MaxSlots)}

InitRooms == InitWith(RoomSchedules, Worlds)

SpecRooms == InitRooms /\ [][Next]_vars

(***************************************************************************)
(* Two calls in a row: the second is made on what the first returned as    *)
(* processedData.  The schedules are those of the slots whose names the    *)
(* reconciliation examines, and of the vacant slots.                       *)
(***************************************************************************)
RerunSchedules ==
    {[k \in DOMAIN slots |-> [slots[k] EXCEPT !.id = "s" \o ToString(k)]] :
        slots \in SeqUpTo(NameSlots \cup VacantSlots, MaxSlots)}

InitRerun == InitWith(RerunSchedules, Worlds)

NextRerun ==
    \/ ProcessBegin
    \/ ValidateNames
    \/ DetectScheduleConflicts
    \/ DetectDuplicateRoomsOrTimes
    \/ CheckInactiveProfessionals
    \/ ProcessAgain

SpecRerun == InitRerun /\ [][NextRerun]_vars

(***************************************************************************)
(* Calls in which the caller may pass one array both as the professionals  *)
(* registry and as roomImportData.newProfessionals.                        *)
(***************************************************************************)
SharedWorlds ==
    {[professionals |-> ps, appointments |-> <<aptMaria>>,
      newProfessionals |-> ps, sameArray |-> TRUE] :
        ps \in {<<profMarina, profMarinaS>>, <<profMarinaS>>, <<>>}}

InitShared == InitWith(RerunSchedules, Worlds \cup SharedWorlds)

SpecShared == InitShared /\ [][Next]_vars

(***************************************************************************)
(* Direct calls of _findClosestMatch: the candidate is any of MatchNames,  *)
(* the registry any list of at most MaxRegistry normalised entries.        *)
(*   "Jõao Silva" is at distance 2 of "joão silva": similarity 8/10 = 0.8  *)
(*   "João Solva" is at distance 1 of "joão silva": similarity 9/10        *)
(*   "JOÃO SILVA" followed by a tab is "joão silva" once lower-cased and   *)
(*   trimmed                                                               *)
(***************************************************************************)
nameJoaoSilva == <<"J","o","ã","o"," ","S","i","l","v","a">>

nameJoanSilve == <<"J","õ","a","o"," ","S","i","l","v","a">>

nameJoaoSolva == <<"J","o","ã","o"," ","S","o","l","v","a">>

nameJoaoUpper == <<"J","O","Ã","O"," ","S","I","L","V","A","\t">>

MatchNames ==
    {nameMarina, nameMarla, nameMari, nameMariaUpper, nameBlank, nameXyz,
     nameJoanSilve, nameJoaoSolva, nameJoaoUpper}

MatchEntries ==
    {lowerTrim(n) : n \in {nameMaria, nameMarina, nameMarino, nameMarinaS,
                           nameBlank, nameJoaoSilva}}

InitMatch ==
    /\ pc = "idle"
    /\ \E h \in {callHeap(<<>>, [professionals |-> <<>>, appointments |-> <<>>,
                                 newProfessionals |-> <<>>,
                                 sameArray |-> FALSE], <<>>)} :
          /\ objects = h.objects
          /\ arrays = h.arrays
          /\ roomImportDataRef = Len(h.objects)
    /\ professionalsRef = 5
    /\ appointmentsRef = 4
    /\ originalDataRef = 0
    /\ suggestedChanges = <<>>
    /\ conflicts = <<>>
    /\ validationErrors = <<>>
    /\ autoCorrections = <<>>
    /\ calledWith = roomImportData
    /\ calls = 0
    /\ matchName \in MatchNames
    /\ matchList \in SeqUpTo(MatchEntries, MaxRegistry)
    /\ matchResult = notCalled

NextMatch == CallFindClosestMatch

SpecMatch == InitMatch /\ [][NextMatch]_vars

(***************************************************************************)
(* Vocabulary of the properties, written from the strings themselves and   *)
(* not from _findClosestMatch or _calculateSimilarity.                     *)
(***************************************************************************)
\* a contains b or b contains a
containment(a, b) == includes(a, b) \/ includes(b, a)

\* similarity strictly above 0.80: 5 * (L - d) > 4 * L, L the longer length
\* and d the edit distance
similarAbove80(a, b) ==
    LET L == IF Len(a) > Len(b) THEN Len(a) ELSE Len(b)
        d == _levenshteinDistance(a, b)
    IN  L > 0 /\ 5 * (L - d) > 4 * L

\* similarity exactly 0.80
similarAt80(a, b) ==
    LET L == IF Len(a) > Len(b) THEN Len(a) ELSE Len(b)
        d == _levenshteinDistance(a, b)
    IN  L > 0 /\ 5 * (L - d) = 4 * L

\* no entry of list matches nameLower by equality, containment or similarity
noMatchIn(nameLower, list) ==
    \A k \in DOMAIN list :
        /\ list[k] # nameLower
        /\ ~containment(list[k], nameLower)
        /\ ~similarAbove80(nameLower, list[k])

matchCalled == matchResult # notCalled

matchCandidate == lowerTrim(matchName)

\* C4: when no registry entry equals the candidate and none contains it or
\* is contained in it, _findClosestMatch returns the first entry whose
\* similarity is strictly above 0.80 (5 * (L - d) > 4 * L) and null when
\* there is none; an entry at exactly 0.80 is never returned.
C4_StrictThreshold ==
    (/\ matchCalled
     /\ \A k \in DOMAIN matchList :
           /\ matchList[k] # matchCandidate
           /\ ~containment(matchList[k], matchCandidate))
    => LET hit == firstTrue([k \in 1..Len(matchList) |->
                                similarAbove80(matchCandidate, matchList[k])])
       IN  /\ hit = 0 => matchResult = null
           /\ hit # 0 => matchResult = matchList[hit]
           /\ \A k \in DOMAIN matchList :
                 similarAt80(matchCandidate, matchList[k])
                    /\ ~similarAbove80(matchCandidate, matchList[k])
                 => matchResult # matchList[k]

\* C4 witness: a call whose only entries are at exactly 0.80 (L = 10, d = 2
\* or L = 5, d = 1) has returned null.
C4_Witness ==
    /\ matchCalled
    /\ matchList # <<>>
    /\ \A k \in DOMAIN matchList :
          /\ ~containment(matchList[k], matchCandidate)
          /\ similarAt80(matchCandidate, matchList[k])
    /\ \E k \in DOMAIN matchList : Len(matchList[k]) = 10
    /\ matchResult = null

\* C5 (as claimed): a candidate that equals a registry entry once lower-cased
\* and trimmed is returned by _findClosestMatch.
C5_ExactMatchReturned ==
    (matchCalled /\ listIncludes(matchList, matchCandidate))
    => matchResult = matchCandidate

\* the first entry, in registry order, that contains the candidate, is
\* contained in it or is more than 0.80 similar to it; 0 when there is none
firstApproximate(nameLower, list) ==
    firstTrue([k \in 1..Len(list) |->
                  containment(list[k], nameLower)
                     \/ similarAbove80(nameLower, list[k])])

firstContainment(nameLower, list) ==
    firstTrue([k \in 1..Len(list) |-> containment(list[k], nameLower)])

\* C9 (as claimed, here for registries without blank entries): when no entry
\* equals the candidate and some entry satisfies containment, the result is
\* the first containment entry, whatever precedes it in the registry.
C9_ContainmentBeforeSimilarity ==
    (/\ matchCalled
     /\ \A k \in DOMAIN matchList : matchList[k] # <<>>
     /\ ~listIncludes(matchList, matchCandidate)
     /\ firstContainment(matchCandidate, matchList) # 0)
    => matchResult = matchList[firstContainment(matchCandidate, matchList)]

\* C9 (amended): when no entry equals the candidate, the result is the first
\* entry in registry order that satisfies containment or has similarity above
\* 0.80, whichever rule it satisfies, and null when no entry satisfies either.
C9_FirstApproximateEntry ==
    (matchCalled /\ ~listIncludes(matchList, matchCandidate))
    => LET hit == firstApproximate(matchCandidate, matchList)
       IN  IF hit = 0 THEN matchResult = null
           ELSE matchResult = matchList[hit]

\* C9 witness: the call returned an entry that is only similar to the
\* candidate although a later entry contains the candidate.
C9_Witness ==
    /\ matchCalled
    /\ ~listIncludes(matchList, matchCandidate)
    /\ \E k \in DOMAIN matchList :
          /\ matchResult = matchList[k]
          /\ ~containment(matchList[k], matchCandidate)
          /\ \E h \in DOMAIN matchList :
                h > k /\ containment(matchList[h], matchCandidate)

(***************************************************************************)
(* Properties of a run of processImportedData                              *)
(***************************************************************************)
finished == pc = "done"

\* the schedule as passed to the call and as it is now, slot by slot
before == calledWith.schedule

after == roomImportData.schedule

\* number of entries of list that are of the given type and slot
countFor(list, type, slotId) ==
    Cardinality({k \in DOMAIN list :
                    list[k].type = type /\ list[k].slotId = slotId})

inList(list, v) == \E k \in DOMAIN list : list[k] = v

\* the slot's professional name is one the reconciliation finds nowhere: not
\* registered, not close to a registered name, not among the new professionals
\* the caller passed
unknownProfessional(slot) ==
    /\ slot.isOccupied
    /\ slot.professionalName # <<>>
    /\ slot.professionalId = ""
    /\ noMatchIn(lowerTrim(slot.professionalName),
                 registeredProfessionalsOf(professionals))
    /\ \A k \in DOMAIN calledWith.newProfessionals :
          lowerTrim(calledWith.newProfessionals[k].name)
             # lowerTrim(slot.professionalName)

\* C1 (as claimed): two occupied slots with the same unmatched professional
\* name and no professionalId end the run with exactly one synthetic
\* professional created for that name and both slots holding its id.
C1_BothSlotsShareSynthetic ==
    finished =>
       \A i, j \in DOMAIN before :
          (/\ i < j
           /\ unknownProfessional(before[i])
           /\ unknownProfessional(before[j])
           /\ lowerTrim(before[i].professionalName)
                 = lowerTrim(before[j].professionalName))
          => LET news == roomImportData.newProfessionals
                 created == {k \in DOMAIN news :
                                /\ k > Len(calledWith.newProfessionals)
                                /\ lowerTrim(news[k].name)
                                      = lowerTrim(before[i].professionalName)}
             IN  /\ Cardinality(created) = 1
                 /\ \A k \in created :
                       /\ after[i].professionalId = news[k].id
                       /\ after[j].professionalId = news[k].id

sameProfDateTime(a, b) ==
    /\ a.professionalId = b.professionalId
    /\ a.appointmentDate = b.appointmentDate
    /\ a.time = b.time

booked(slot) == slot.isOccupied /\ slot.professionalId # ""

\* C2: after a run, the occupied slots that share a non-empty professionalId,
\* appointmentDate and time with another occupied slot are all listed in one
\* conflict of type "Profissional em Múltiplas Salas" and all have
\* hasScheduleConflict set.
C2_DoubleBookingComplete ==
    finished =>
       \A i \in DOMAIN after :
          LET group == {j \in DOMAIN after :
                           booked(after[j]) /\ sameProfDateTime(after[i], after[j])}
          IN  (booked(after[i]) /\ Cardinality(group) >= 2)
              => /\ \E c \in DOMAIN conflicts :
                       /\ conflicts[c].type = "Profissional em Múltiplas Salas"
                       /\ \A j \in group : inList(conflicts[c].slots, after[j].id)
                 /\ \A j \in group : after[j].hasScheduleConflict

\* C2 witness: a finished run with two occupied slots in different rooms that
\* share professional, date and time, one of which got its professionalId
\* from the name reconciliation, both listed in a conflict and flagged.
C2_Witness ==
    /\ finished
    /\ \E i, j \in DOMAIN after :
          /\ i # j
          /\ booked(after[i]) /\ booked(after[j])
          /\ sameProfDateTime(after[i], after[j])
          /\ after[i].roomName # after[j].roomName
          /\ before[i].professionalId = ""
          /\ before[j].professionalId # ""
          /\ after[i].hasScheduleConflict /\ after[j].hasScheduleConflict
          /\ \E c \in DOMAIN conflicts :
                /\ conflicts[c].type = "Profissional em Múltiplas Salas"
                /\ inList(conflicts[c].slots, after[i].id)
                /\ inList(conflicts[c].slots, after[j].id)

\* the appointment is of the slot's professional at the slot's date and time
collides(apt, slot) ==
    /\ apt.professionalId = slot.professionalId
    /\ apt.date = slot.appointmentDate
    /\ apt.time = slot.time

\* the appointment linked to the slot collides with it and no other does
onlyLinkedCollides(slot) ==
    /\ booked(slot)
    /\ slot.linkedAppointmentId # ""
    /\ \E a \in DOMAIN appointments :
          /\ appointments[a].id = slot.linkedAppointmentId
          /\ collides(appointments[a], slot)
    /\ \A a \in DOMAIN appointments :
          collides(appointments[a], slot)
             => appointments[a].id = slot.linkedAppointmentId

\* C3: right after _detectScheduleConflicts, no conflict of type "Conflito
\* com Agendamento Existente" lists the appointment linked to its slot; a
\* slot whose linked appointment is the only colliding one has no such
\* conflict, and hasScheduleConflict is set on it only if it is also part of
\* a double booking.
C3_LinkedAppointmentExcluded ==
    pc = "_detectDuplicateRoomsOrTimes" =>
       \A i \in DOMAIN after :
          LET slot == after[i]
          IN  booked(slot) =>
                /\ \A c \in DOMAIN conflicts :
                      (/\ conflicts[c].type = "Conflito com Agendamento Existente"
                       /\ conflicts[c].slotId = slot.id)
                      => \A k \in DOMAIN conflicts[c].conflictingAppointments :
                            conflicts[c].conflictingAppointments[k].id
                               # slot.linkedAppointmentId
                /\ onlyLinkedCollides(slot) =>
                      /\ countFor(conflicts,
                                  "Conflito com Agendamento Existente", slot.id) = 0
                      /\ slot.hasScheduleConflict =>
                            \E c \in DOMAIN conflicts :
                               /\ conflicts[c].type = "Profissional em Múltiplas Salas"
                               /\ inList(conflicts[c].slots, slot.id)

\* C3 witness: right after the pass there is a slot whose linked appointment
\* is the only colliding one, and the pass has recorded no conflict and set
\* no flag on it.
C3_Witness ==
    /\ pc = "_detectDuplicateRoomsOrTimes"
    /\ \E i \in DOMAIN after :
          /\ onlyLinkedCollides(after[i])
          /\ ~after[i].hasScheduleConflict
          /\ conflicts = <<>>

\* what the claims on patient names say of the slot at position i
patientRegistry == registeredPatientsOf(appointments)

examinedPatient(slot) == slot.isOccupied /\ slot.patientName # <<>>

\* C5 (second part, holds): an occupied slot whose patient or professional
\* name is registered once lower-cased and trimmed keeps that name and gets
\* no AutoCorrection, ValidationError or ChangeRecord for it.
C5_RegisteredNameUntouched ==
    finished =>
       \A i \in DOMAIN before :
          /\ (/\ examinedPatient(before[i])
              /\ listIncludes(patientRegistry, lowerTrim(before[i].patientName)))
             => /\ after[i].patientName = before[i].patientName
                /\ countFor(autoCorrections, "Paciente", before[i].id) = 0
                /\ countFor(validationErrors, "Paciente", before[i].id) = 0
                /\ countFor(suggestedChanges, "Correção de Nome de Paciente",
                            before[i].id) = 0
                /\ countFor(suggestedChanges, "Erro de Validação",
                            before[i].id) = 0
          /\ (/\ before[i].isOccupied
              /\ before[i].professionalName # <<>>
              /\ listIncludes(registeredProfessionalsOf(professionals),
                              lowerTrim(before[i].professionalName)))
             => /\ after[i].professionalName = before[i].professionalName
                /\ countFor(autoCorrections, "Profissional", before[i].id) = 0
                /\ countFor(validationErrors, "Profissional", before[i].id) = 0
                /\ countFor(suggestedChanges,
                            "Correção de Nome de Profissional", before[i].id) = 0
                /\ countFor(suggestedChanges, "Novo Profissional",
                            before[i].id) = 0

\* C6 (as claimed): an occupied slot whose patient name is not registered
\* and for which _findClosestMatch returns an entry m ends the run with the
\* client name of the first appointment whose normalised client is m, one
\* AutoCorrection of type Paciente (original the old name, corrected the new
\* one) and one ChangeRecord of the correction.
C6_PatientCorrected ==
    finished =>
       \A i \in DOMAIN before :
          LET lower == lowerTrim(before[i].patientName)
              m == _findClosestMatch(lower, patientRegistry)
              first == firstTrue([k \in 1..Len(appointments) |->
                                     lowerTrim(appointments[k].client) = m])
          IN  (/\ examinedPatient(before[i])
               /\ ~listIncludes(patientRegistry, lower)
               /\ m # null)
              => /\ after[i].patientName = appointments[first].client
                 /\ countFor(autoCorrections, "Paciente", before[i].id) = 1
                 /\ \A k \in DOMAIN autoCorrections :
                       (/\ autoCorrections[k].type = "Paciente"
                        /\ autoCorrections[k].slotId = before[i].id)
                       => /\ autoCorrections[k].original = before[i].patientName
                          /\ autoCorrections[k].corrected = after[i].patientName
                 /\ countFor(suggestedChanges, "Correção de Nome de Paciente",
                             before[i].id) = 1

\* the run is past _validateNames
namesValidated == pc \notin {"idle", "_validateNames"}

\* C7: an occupied slot whose patient name matches no registered patient by
\* equality, containment or similarity above 0.80 has, from the end of
\* _validateNames on and through every later pass up to the end of the run,
\* one ValidationError of type Paciente, one ChangeRecord "Erro de
\* Validação", no AutoCorrection of its patient name, and its name unchanged.
C7_UnmatchedPatientReported ==
    namesValidated =>
       \A i \in DOMAIN before :
          (/\ examinedPatient(before[i])
           /\ noMatchIn(lowerTrim(before[i].patientName), patientRegistry))
          => /\ countFor(validationErrors, "Paciente", before[i].id) = 1
             /\ countFor(suggestedChanges, "Erro de Validação",
                         before[i].id) = 1
             /\ countFor(autoCorrections, "Paciente", before[i].id) = 0
             /\ after[i].patientName = before[i].patientName

\* C7 witness: a finished run with a slot whose patient name matches nothing,
\* its validation error recorded and its name as it was.
C7_Witness ==
    /\ finished
    /\ \E i \in DOMAIN before :
          /\ examinedPatient(before[i])
          /\ noMatchIn(lowerTrim(before[i].patientName), patientRegistry)
          /\ countFor(validationErrors, "Paciente", before[i].id) = 1
          /\ after[i].patientName = before[i].patientName

\* position in the registry of the professional the slot's id resolves to
resolved(slot) ==
    firstTrue([k \in 1..Len(professionals) |->
                  professionals[k].id = slot.professionalId])

resolvesToInactive(slot) ==
    /\ booked(slot)
    /\ resolved(slot) # 0
    /\ professionals[resolved(slot)].inactive

\* C8: the step _checkInactiveProfessionals records exactly one conflict
\* "Profissional Inativo" for each occupied slot whose professionalId
\* resolves to an inactive professional and sets hasValidationError on it,
\* records none for any other slot, and changes hasScheduleConflict on no
\* slot.
C8_InactiveProfessionalFlagged ==
    [][pc = "_checkInactiveProfessionals" =>
         \A i \in DOMAIN after :
            /\ roomImportData'.schedule[i].hasScheduleConflict
                  = after[i].hasScheduleConflict
            /\ resolvesToInactive(after[i]) =>
                  /\ countFor(conflicts', "Profissional Inativo", after[i].id) = 1
                  /\ roomImportData'.schedule[i].hasValidationError
            /\ ~resolvesToInactive(after[i]) =>
                  /\ countFor(conflicts', "Profissional Inativo", after[i].id) = 0
                  /\ roomImportData'.schedule[i].hasValidationError
                        = after[i].hasValidationError]_vars

\* C8 witness: a finished run with a slot of an inactive professional that
\* has its conflict and hasValidationError, and no hasScheduleConflict.
C8_Witness ==
    /\ finished
    /\ \E i \in DOMAIN after :
          /\ resolvesToInactive(after[i])
          /\ countFor(conflicts, "Profissional Inativo", after[i].id) = 1
          /\ after[i].hasValidationError
          /\ ~after[i].hasScheduleConflict

\* the arrays the caller passed, and those this.originalData holds
inputArrays ==
    {objects[roomImportDataRef].schedule,
     objects[roomImportDataRef].newProfessionals,
     objects[roomImportDataRef].updatedAppointments,
     professionalsRef, appointmentsRef}

snapshotArrays ==
    {objects[originalDataRef].schedule,
     objects[originalDataRef].newProfessionals,
     objects[originalDataRef].updatedAppointments}

\* the objects that are elements of one of the arrays
elementObjects(arrayRefs) ==
    UNION {{arrays[a][k] : k \in DOMAIN arrays[a]} : a \in arrayRefs}

\* this.originalData is an object of its own, its arrays are none of the
\* arrays passed, and their elements are none of the elements of those
sharesNoState ==
    /\ originalDataRef # roomImportDataRef
    /\ snapshotArrays \cap inputArrays = {}
    /\ elementObjects(snapshotArrays)
          \cap (elementObjects(inputArrays) \cup {roomImportDataRef}) = {}

\* C10: after a run, originalData is the schedule, newProfessionals and
\* updatedAppointments as they were at the call, whatever the run has
\* rewritten, flagged or appended in roomImportData, and it shares no object
\* and no array with the arguments of the call.
C10_SnapshotIsCallState ==
    finished =>
       /\ originalData.schedule = calledWith.schedule
       /\ originalData.newProfessionals = calledWith.newProfessionals
       /\ originalData.updatedAppointments = calledWith.updatedAppointments
       /\ sharesNoState

\* C10 witness: a finished run that rewrote a name, assigned a professionalId,
\* set a flag and appended a synthetic professional, none of which shows in
\* originalData.
C10_Witness ==
    /\ finished
    /\ Len(roomImportData.newProfessionals) > Len(calledWith.newProfessionals)
    /\ \E i \in DOMAIN after : after[i].patientName # before[i].patientName
    /\ \E i \in DOMAIN after : after[i].professionalId # before[i].professionalId
    /\ \E i \in DOMAIN after : after[i].hasScheduleConflict
    /\ originalData.schedule = before
    /\ originalData.newProfessionals = calledWith.newProfessionals

\* list, and what a step appended to it
isPrefix(list, longer) ==
    /\ Len(list) <= Len(longer)
    /\ SubSeq(longer, 1, Len(list)) = list

countOfType(list, type) ==
    Cardinality({k \in DOMAIN list : list[k].type = type})

\* the caller passed one array as professionals and as
\* roomImportData.newProfessionals
sameArrayPassed ==
    professionalsRef = objects[roomImportDataRef].newProfessionals

\* C11, as stated: no step of a run changes the professionals registry or
\* the appointments registry (same length, same elements, same field
\* values); the newProfessionals list of the imported data only grows at its
\* end, by as many professionals as the step recorded "Novo Profissional"
\* changes, each of them a synthetic one.
C11_RegistriesUntouched ==
    [][/\ professionals' = professionals
       /\ appointments' = appointments
       /\ isPrefix(roomImportData.newProfessionals,
                   roomImportData'.newProfessionals)
       /\ Len(roomImportData'.newProfessionals)
             - Len(roomImportData.newProfessionals)
          = countOfType(suggestedChanges', "Novo Profissional")
               - (IF pc \in {"idle", "done"} THEN 0
                  ELSE countOfType(suggestedChanges, "Novo Profissional"))
       /\ \A k \in DOMAIN roomImportData'.newProfessionals :
             k > Len(roomImportData.newProfessionals)
             => roomImportData'.newProfessionals[k].specialty
                   = "Importado - IA"]_vars

\* C11, amended: no step of a run changes the appointments registry, nor an
\* element the professionals registry holds; the only array a step changes
\* is roomImportData.newProfessionals, which grows at its end by as many
\* professionals as the step recorded "Novo Profissional" changes, each of
\* them a synthetic one.  The professionals registry is therefore left as it
\* was when it is an array other than roomImportData.newProfessionals, and
\* receives the synthetic professionals when the caller passed that array as
\* the registry.
C11_OnlyNewProfessionalsGrows ==
    [][/\ appointments' = appointments
       /\ isPrefix(professionals, professionals')
       /\ ~sameArrayPassed => professionals' = professionals
       /\ sameArrayPassed => professionals' = roomImportData'.newProfessionals
       /\ \A a \in DOMAIN arrays :
             a # objects[roomImportDataRef].newProfessionals
             => arrays'[a] = arrays[a]
       /\ isPrefix(roomImportData.newProfessionals,
                   roomImportData'.newProfessionals)
       /\ Len(roomImportData'.newProfessionals)
             - Len(roomImportData.newProfessionals)
          = countOfType(suggestedChanges', "Novo Profissional")
               - (IF pc \in {"idle", "done"} THEN 0
                  ELSE countOfType(suggestedChanges, "Novo Profissional"))
       /\ \A k \in DOMAIN roomImportData'.newProfessionals :
             k > Len(roomImportData.newProfessionals)
             => roomImportData'.newProfessionals[k].specialty
                   = "Importado - IA"]_vars

\* C11 witness: a finished run, called with one array as professionals and
\* as roomImportData.newProfessionals, that appended a synthetic professional,
\* now the last of the registry, and corrected a patient name from a
\* non-empty appointments registry.
C11_Witness ==
    /\ finished
    /\ sameArrayPassed
    /\ appointments # <<>>
    /\ Len(professionals) > Len(calledWith.newProfessionals)
    /\ professionals[Len(professionals)].specialty = "Importado - IA"
    /\ countOfType(autoCorrections, "Paciente") > 0

\* a finished run with two arrays that appended a synthetic professional to
\* newProfessionals and left a non-empty professionals registry as it was
C11_SeparateArraysReached ==
    /\ finished
    /\ ~sameArrayPassed
    /\ professionals # <<>>
    /\ Len(roomImportData.newProfessionals) > Len(calledWith.newProfessionals)

\* the slot's id is the slotId of an entry of the list
mentionedIn(list, slotId) == \E k \in DOMAIN list : list[k].slotId = slotId

\* the slot's id is the slotId of a conflict or one of its slots
inConflict(slotId) ==
    \E c \in DOMAIN conflicts :
       IF "slots" \in DOMAIN conflicts[c]
       THEN inList(conflicts[c].slots, slotId)
       ELSE conflicts[c].slotId = slotId

sameRoomDayTime(a, b) ==
    /\ a.roomName = b.roomName
    /\ a.dayOfWeek = b.dayOfWeek
    /\ a.time = b.time

\* C12: at every point of a run and at its end, a slot that was passed with
\* isOccupied = false has every field as it was passed, and its id is in no
\* AutoCorrection, ValidationError, ChangeRecord or Conflict, whatever keys
\* it shares with occupied slots.
C12_VacantSlotSkipped ==
    \A i \in DOMAIN before :
       ~before[i].isOccupied
       => /\ after[i] = before[i]
          /\ ~mentionedIn(autoCorrections, before[i].id)
          /\ ~mentionedIn(validationErrors, before[i].id)
          /\ ~mentionedIn(suggestedChanges, before[i].id)
          /\ ~inConflict(before[i].id)

\* C12 witness: a finished run with a vacant slot that shares room, day and
\* time, and also professional, date and time, with an occupied slot whose
\* professional is inactive: the occupied slot is flagged and in a conflict,
\* the vacant slot is as it was.
C12_Witness ==
    /\ finished
    /\ \E i, j \in DOMAIN before :
          /\ ~before[i].isOccupied
          /\ before[j].isOccupied
          /\ before[i].professionalId # ""
          /\ sameRoomDayTime(before[i], before[j])
          /\ sameProfDateTime(before[i], before[j])
          /\ after[j].hasValidationError
          /\ inConflict(before[j].id)
          /\ after[i] = before[i]

\* the run is past _detectDuplicateRoomsOrTimes
roomsChecked == pc \in {"_checkInactiveProfessionals", "done"}

duplicateRoomConflicts ==
    {c \in DOMAIN conflicts :
        conflicts[c].type = "Sala com Múltiplos Agendamentos"}

\* position in the schedule of the slot with the given id
slotWithId(slotId) == CHOOSE i \in DOMAIN after : after[i].id = slotId

\* C13 (as claimed): once the duplicate-room pass is over, every occupied
\* slot that agrees with another occupied slot on roomName, dayOfWeek and
\* time is listed with all the slots it agrees with in exactly one
\* duplicate-room conflict and all of them are flagged hasScheduleConflict,
\* and every duplicate-room conflict lists more than one slot, all of which
\* agree on roomName, dayOfWeek and time, whatever characters these hold.
C13_GroupsAgreeOnRoomDayTime ==
    roomsChecked =>
       /\ \A i \in DOMAIN after :
             LET group == {j \in DOMAIN after :
                              /\ after[j].isOccupied
                              /\ sameRoomDayTime(after[i], after[j])}
             IN  (after[i].isOccupied /\ Cardinality(group) >= 2)
                 => /\ Cardinality({c \in duplicateRoomConflicts :
                          inList(conflicts[c].slots, after[i].id)}) = 1
                    /\ \E c \in duplicateRoomConflicts :
                          \A j \in group :
                             inList(conflicts[c].slots, after[j].id)
                    /\ \A j \in group : after[j].hasScheduleConflict
       /\ \A c \in duplicateRoomConflicts :
             /\ Len(conflicts[c].slots) > 1
             /\ \A h, k \in DOMAIN conflicts[c].slots :
                   sameRoomDayTime(after[slotWithId(conflicts[c].slots[h])],
                                   after[slotWithId(conflicts[c].slots[k])])

\* the call in progress, or the last one made, is the second
secondCall == calls = 2

\* C14: in a second call made on the processedData of a first call with the
\* same registries (before is then that processedData), from the end of
\* _validateNames on there is no AutoCorrection, newProfessionals is the
\* list the first call left, no "Novo Profissional" change is recorded, and
\* every slot has the patientName, professionalName and professionalId the
\* first call left.
C14_SecondRunChangesNoName ==
    (secondCall /\ namesValidated) =>
       /\ autoCorrections = <<>>
       /\ roomImportData.newProfessionals = calledWith.newProfessionals
       /\ countOfType(suggestedChanges, "Novo Profissional") = 0
       /\ \A i \in DOMAIN before :
             /\ after[i].patientName = before[i].patientName
             /\ after[i].professionalName = before[i].professionalName
             /\ after[i].professionalId = before[i].professionalId

\* C14 witness: a finished second call on data in which the first call had
\* created a synthetic professional that a slot refers to, had given a slot
\* the id of a registered professional (no occupied slot is passed to the
\* first call with a professionalId), and had corrected a patient name to
\* "Maria" (no occupied slot is passed to the first call with that name).
C14_Witness ==
    /\ secondCall
    /\ finished
    /\ \E k \in DOMAIN calledWith.newProfessionals :
          /\ calledWith.newProfessionals[k].specialty = "Importado - IA"
          /\ \E i \in DOMAIN before :
                before[i].professionalId = calledWith.newProfessionals[k].id
    /\ \E i \in DOMAIN before :
          /\ before[i].isOccupied
          /\ \/ \E k \in DOMAIN professionals :
                   before[i].professionalId = professionals[k].id
             \/ before[i].patientName = nameMaria
    /\ after = before

====
